---- MODULE Spec2Model ----
(***************************************************************************)
(* Model of the k3s Dagger module (src/k3s/main.go): cluster sessions      *)
(* built by New, the cache volumes they mount, the bootstrap entrypoint    *)
(* script, the service produced by Server, and the kubeconfig fetch done   *)
(* by Config / Kubectl / Kns.                                              *)
(*                                                                         *)
(* The container pipeline that New composes is taken to be executed by the *)
(* engine as part of the construction (the CACHEBUST variable of line 83   *)
(* forces its exec steps to run on every construction).  Cache volumes are *)
(* engine-global and keyed by a string, so their contents outlive every    *)
(* session; Init therefore draws their prior contents from a set of trees, *)
(* the same for every name.                                                *)
(***************************************************************************)
EXTENDS Integers, Sequences, FiniteSets, TLC

VARIABLES sessions, svc, vol, bound, call, panicked

vars == <<sessions, svc, vol, bound, call, panicked>>

(***************************************************************************)
(* Bounds.                                                                 *)
(***************************************************************************)
MaxSessions == 2
MaxPort == 2
MaxFails == 1

Names == {"a", "b"}
Ports == 1..MaxPort
DefaultImage == "rancher/k3s:latest"
BindAddress == "10.0.0.2"

(***************************************************************************)
(* Cache volume keys (lines 72 and 82).                                    *)
(***************************************************************************)
ConfigKeyNoName(name) == "k3s_config_"

ConfigKey(name) == "k3s_config_" \o name

CacheKey(name) == "k3s_cache_" \o name

Keys == {ConfigKey(n) : n \in Names} \cup {CacheKey(n) : n \in Names}

(***************************************************************************)
(* Paths are sequences of components; a volume maps each path that exists  *)
(* in it (relative to its root) to an entry.  Mount points are the         *)
(* absolute paths of lines 79 and 82.                                      *)
(***************************************************************************)
ConfigMount == <<"etc", "rancher", "k3s">>
RuntimeMount == <<"var", "lib", "rancher">>
ConfigCallMount == <<"cache", "k3s">>

TlsPath == <<"var", "lib", "rancher", "k3s", "server", "tls">>
KubeconfigPath == <<"etc", "rancher", "k3s", "k3s.yaml">>
StatePath == <<"var", "lib", "rancher", "k3s">>
DbPath == <<"var", "lib", "rancher", "k3s", "server", "db">>

Dir == [dir |-> TRUE, text |-> <<>>]
File(text) == [dir |-> FALSE, text |-> text]

IsPrefix(p, q) == Len(p) <= Len(q) /\ SubSeq(q, 1, Len(p)) = p

Tail_(p, n) == SubSeq(p, n + 1, Len(p))

\* The mounts of a container: set of [at |-> mount point, key |-> volume].
Mounts(c) ==
  (IF c.cfg # "" THEN {[at |-> ConfigMount, key |-> c.cfg]} ELSE {})
  \cup (IF c.rt # "" THEN {[at |-> RuntimeMount, key |-> c.rt]} ELSE {})

\* rm -rf target, run in a container with the given mounts: every entry of a
\* mounted volume at or below the target goes away.
RmRf(v, mounts, target) ==
  [k \in DOMAIN v |->
     IF \E m \in mounts : m.key = k
     THEN LET m == CHOOSE m \in mounts : m.key = k
              keep == {p \in DOMAIN v[k] : ~IsPrefix(target, m.at \o p)}
          IN [p \in keep |-> v[k][p]]
     ELSE v[k]]

\* Writing an entry at an absolute path creates the missing directories
\* above it inside the volume (mkdir -p) and then the entry itself.
WriteAt(v, mounts, path, entry) ==
  IF \E m \in mounts : IsPrefix(m.at, path) /\ Len(m.at) < Len(path)
  THEN LET m == CHOOSE m \in mounts : IsPrefix(m.at, path) /\ Len(m.at) < Len(path)
           rel == Tail_(path, Len(m.at))
           dirs == {SubSeq(rel, 1, i) : i \in 1..(Len(rel) - 1)}
           dom == DOMAIN v[m.key] \cup dirs \cup {rel}
       IN [v EXCEPT ![m.key] =
             [p \in dom |-> IF p = rel THEN entry
                            ELSE IF p \in DOMAIN v[m.key] THEN v[m.key][p]
                            ELSE Dir]]
  ELSE v

\* Does an absolute path exist, seen through the mounts?
Exists(v, mounts, path) ==
  \E m \in mounts : IsPrefix(m.at, path) /\ Len(m.at) < Len(path)
                    /\ Tail_(path, Len(m.at)) \in DOMAIN v[m.key]

(***************************************************************************)
(* Prior contents of the volumes.  A runtime volume holds whatever an      *)
(* earlier cluster (or any other user of the same volume key) left there.  *)
(***************************************************************************)
Yaml(addr, port) == <<"server:", " ", "https:", "/", "/", addr, ":", ToString(port)>>

K3sTree ==
  [p \in {<<"k3s">>, <<"k3s", "server">>, <<"k3s", "server", "tls">>,
          <<"k3s", "server", "db">>} |-> Dir]

OtherTree == [p \in {<<"other">>} |-> Dir]

EmptyTree == [p \in {} |-> Dir]

PriorRuntime == {EmptyTree, K3sTree, K3sTree @@ OtherTree}

\* The port of an earlier run, in the kubeconfig it left behind.
StalePort == 1

PriorConfig ==
  {EmptyTree, [p \in {<<"k3s.yaml">>} |-> File(Yaml(BindAddress, StalePort))]}

(***************************************************************************)
(* getFreePort (lines 177-188).  bound[p] is Free, Other (a socket of      *)
(* another process), Probe (the listener of getFreePort) or the index of   *)
(* the session whose service listens on p.                                 *)
(***************************************************************************)
Free == 0
Other == -1
Probe == -2

Listen(b, p) == [b EXCEPT ![p] = Probe]

CloseLeak(b, p) == b

Close(b, p) == [b EXCEPT ![p] = Free]

GetFreePort(b) ==
  IF \A p \in Ports : b[p] # Free
  THEN {[port |-> 0, err |-> TRUE, bound |-> b]}
  ELSE {[port |-> p, err |-> FALSE, bound |-> Close(Listen(b, p), p)] :
          p \in {q \in Ports : b[q] = Free}}

(***************************************************************************)
(* The container built by New (lines 73-93): its mounts, its entrypoint    *)
(* and the exposed port, and the exec steps of lines 84-91 that the        *)
(* construction runs in it.                                                *)
(***************************************************************************)
CredentialWipeTlsOnly == <<TlsPath>>

CredentialWipeKubeconfigOnly == <<KubeconfigPath>>

CredentialWipe == <<TlsPath, KubeconfigPath>>
StateWipe == <<StatePath>>

ExecsIgnoringKeepState(keepState) == <<CredentialWipe, StateWipe>>

ExecsNoStateWipe(keepState) == <<CredentialWipe>>

Execs(keepState) ==
  <<CredentialWipe>> \o (IF ~keepState THEN <<StateWipe>> ELSE <<>>)

NewContainer(name, image, keepState, port) ==
  [from |-> image, entrypoint |-> TRUE,
   cfg |-> ConfigKey(name), rt |-> CacheKey(name),
   exposed |-> port]

\* One exec step: rm -rf with the targets of the step, in order.
RECURSIVE RmAll(_, _, _)
RmAll(v, mounts, targets) ==
  IF targets = <<>> THEN v
  ELSE RmAll(RmRf(v, mounts, Head(targets)), mounts, Tail(targets))

RECURSIVE RunExecs(_, _, _)
RunExecs(v, mounts, execs) ==
  IF execs = <<>> THEN v
  ELSE RunExecs(RmAll(v, mounts, Head(execs)), mounts, Tail(execs))

\* A container of the caller that is not derived from the one New builds:
\* the image alone, with no entrypoint script, mount or exposed port.
Plain ==
  [from |-> DefaultImage, entrypoint |-> FALSE, cfg |-> "", rt |-> "",
   exposed |-> 0]

NoService == [status |-> "none", port |-> 0]

\* call.at is the number of sessions constructed when the fetch returned its
\* file; call.prev is the file the fetch before this one returned, kept when
\* that fetch was for the same name and returned before this session existed.
NoCall ==
  [op |-> "none", s |-> 0, local |-> FALSE, pc |-> "idle", file |-> <<>>,
   at |-> 0, prev |-> <<>>]

Init ==
  /\ sessions = <<>>
  /\ svc = <<>>
  /\ \E c \in PriorConfig, r \in PriorRuntime :
       vol = [k \in Keys |-> IF k \in {ConfigKey(n) : n \in Names} THEN c ELSE r]
  /\ bound = [p \in Ports |-> Free]
  /\ call = NoCall
  /\ panicked = FALSE

(***************************************************************************)
(* New (lines 54-100).  A failed port allocation panics (lines 67-69).     *)
(***************************************************************************)
New(name, image, keepState) ==
  /\ ~panicked
  /\ Len(sessions) < MaxSessions
  /\ \E r \in GetFreePort(bound) :
       IF r.err
       THEN /\ panicked' = TRUE
            /\ UNCHANGED <<sessions, svc, vol, bound, call>>
       ELSE LET ctr == NewContainer(name, image, keepState, r.port)
            IN /\ sessions' = Append(sessions,
                     [Name |-> name, ConfigCache |-> ConfigKey(name),
                      Container |-> ctr, Port |-> r.port])
               /\ svc' = Append(svc, NoService)
               /\ vol' = RunExecs(vol, Mounts(ctr), Execs(keepState))
               /\ bound' = r.bound
               /\ UNCHANGED <<call, panicked>>

\* Sockets of other processes on the same host.
OtherBind(p) ==
  /\ ~panicked
  /\ bound[p] = Free
  /\ bound' = [bound EXCEPT ![p] = Other]
  /\ UNCHANGED <<sessions, svc, vol, call, panicked>>

OtherRelease(p) ==
  /\ ~panicked
  /\ bound[p] = Other
  /\ bound' = [bound EXCEPT ![p] = Free]
  /\ UNCHANGED <<sessions, svc, vol, call, panicked>>

(***************************************************************************)
(* The entrypoint script (lines 17-40).  It runs under errexit, so the     *)
(* first failing command that is not the left side of || ends the script   *)
(* before the final exec.  fails is the set of commands that fail.         *)
(***************************************************************************)
ShimBody ==
  << [cmd |-> "echo_start", guarded |-> FALSE],
     [cmd |-> "mkdir_init", guarded |-> FALSE],
     [cmd |-> "move_pids", guarded |-> TRUE],
     [cmd |-> "subtree_control", guarded |-> FALSE],
     [cmd |-> "echo_done", guarded |-> FALSE] >>

ShimCmds == {ShimBody[i].cmd : i \in 1..Len(ShimBody)}

FailSets == {f \in SUBSET ShimCmds : Cardinality(f) <= MaxFails}

RunErrexitOff(cmds, fails) == "done"

RECURSIVE RunErrexit(_, _)
RunErrexit(cmds, fails) ==
  IF cmds = <<>> THEN "done"
  ELSE IF Head(cmds).cmd \in fails /\ ~Head(cmds).guarded THEN "exit"
  ELSE RunErrexit(Tail(cmds), fails)

Entrypoint(cgroupV2, fails) ==
  IF cgroupV2 /\ RunErrexit(ShimBody, fails) = "exit" THEN "exit" ELSE "exec"

(***************************************************************************)
(* Server (lines 103-113) returns a service handle; the engine starts it   *)
(* later.  The started service runs the entrypoint and then k3s, which     *)
(* listens on the port of its command line and writes its TLS material,    *)
(* its datastore and the kubeconfig below the paths the container mounts.  *)
(***************************************************************************)
ServerArgsPort(m) == m.Port

K3sServer(v, mounts, port) ==
  WriteAt(WriteAt(WriteAt(v, mounts, TlsPath, Dir), mounts, DbPath, Dir),
          mounts, KubeconfigPath, File(Yaml(BindAddress, port)))

Server(s, cgroupV2, fails) ==
  /\ ~panicked
  /\ s \in DOMAIN sessions
  /\ svc[s].status = "none"
  /\ LET m == sessions[s]
         port == ServerArgsPort(m)
         r == IF m.Container.entrypoint THEN Entrypoint(cgroupV2, fails) ELSE "exec"
     IN IF r = "exit"
        THEN /\ svc' = [svc EXCEPT ![s] = [status |-> "aborted", port |-> port]]
             /\ UNCHANGED <<vol, bound>>
        ELSE IF bound[port] # Free
        THEN /\ svc' = [svc EXCEPT ![s] = [status |-> "portbusy", port |-> port]]
             /\ UNCHANGED <<vol, bound>>
        ELSE /\ svc' = [svc EXCEPT ![s] = [status |-> "running", port |-> port]]
             /\ bound' = [bound EXCEPT ![port] = s]
             /\ vol' = K3sServer(vol, Mounts(m.Container), port)
  /\ UNCHANGED <<sessions, call, panicked>>

(***************************************************************************)
(* WithContainer (lines 116-119).  The argument is a container of the      *)
(* caller, here one that is unrelated to the container New built.           *)
(***************************************************************************)
UserContainers(s) == {Plain}

WithContainerMerge(m, c) == [m EXCEPT !.Container = c, !.Port = c.exposed]

WithContainer_(m, c) == [m EXCEPT !.Container = c]

WithContainer(s, c) ==
  /\ ~panicked
  /\ s \in 1..Len(sessions)
  /\ sessions' = [sessions EXCEPT ![s] = WithContainer_(sessions[s], c)]
  /\ UNCHANGED <<svc, vol, bound, call, panicked>>

(***************************************************************************)
(* sed, as Config uses it (line 138).  Texts and scripts are sequences of  *)
(* tokens.  An s command is s, a delimiter, the pattern up to the next     *)
(* delimiter, the replacement up to the one after, then flags; anything    *)
(* else in the flags is an error and sed exits non-zero.                   *)
(***************************************************************************)
\* fmt.Sprintf(`s/https:.*:%d/https://localhost:%d/g`, m.Port, m.Port)
SedScript(port) ==
  <<"s", "/", "https:", ".*", ":", ToString(port), "/",
    "https:", "/", "/", "localhost", ":", ToString(port), "/", "g">>

SedFlags == {"g", "p", "i", "I"}

\* Index of the first occurrence of d in script at or after position from, 0 if none.
FindDelim(script, d, from) ==
  LET hits == {i \in from..Len(script) : script[i] = d}
  IN IF hits = {} THEN 0 ELSE CHOOSE i \in hits : \A j \in hits : i <= j

SedParse(script) ==
  IF Len(script) < 2 \/ script[1] # "s" THEN [ok |-> FALSE]
  ELSE LET d == script[2]
           e1 == FindDelim(script, d, 3)
           e2 == IF e1 = 0 THEN 0 ELSE FindDelim(script, d, e1 + 1)
       IN IF e1 = 0 \/ e2 = 0 THEN [ok |-> FALSE]
          ELSE LET flags == SubSeq(script, e2 + 1, Len(script))
               IN IF \E i \in 1..Len(flags) : flags[i] \notin SedFlags
                  THEN [ok |-> FALSE]
                  ELSE [ok |-> TRUE,
                        pattern |-> SubSeq(script, 3, e1 - 1),
                        replacement |-> SubSeq(script, e1 + 1, e2 - 1),
                        global |-> \E i \in 1..Len(flags) : flags[i] = "g"]

\* Does the pattern (literal tokens and the wildcard .*) match the whole text?
RECURSIVE Match(_, _)
Match(pat, text) ==
  IF pat = <<>> THEN text = <<>>
  ELSE IF Head(pat) = ".*"
       THEN \E k \in 0..Len(text) : Match(Tail(pat), SubSeq(text, k + 1, Len(text)))
       ELSE text # <<>> /\ Head(text) = Head(pat) /\ Match(Tail(pat), Tail(text))

\* Replace the leftmost longest match, and with g the ones after it.
RECURSIVE Substitute(_, _, _, _)
Substitute(text, pat, repl, global) ==
  LET spans == {sp \in (1..Len(text)) \X (0..Len(text)) :
                  sp[2] >= sp[1] - 1 /\ Match(pat, SubSeq(text, sp[1], sp[2]))}
  IN IF spans = {} \/ text = <<>> THEN text
     ELSE LET sp == CHOOSE x \in spans : \A y \in spans :
                      x[1] < y[1] \/ (x[1] = y[1] /\ x[2] >= y[2])
              rest == SubSeq(text, sp[2] + 1, Len(text))
          IN SubSeq(text, 1, sp[1] - 1) \o repl \o
             (IF global /\ sp[2] >= sp[1] THEN Substitute(rest, pat, repl, global) ELSE rest)

\* sed -i script file: the exit status and the text of the file afterwards.
SedExec(script, text) ==
  LET c == SedParse(script)
  IN IF ~c.ok THEN [ok |-> FALSE, text |-> text]
     ELSE [ok |-> TRUE, text |-> Substitute(text, c.pattern, c.replacement, c.global)]

(***************************************************************************)
(* Config (lines 122-145), and Kubectl (148-157) and Kns (160-175), which  *)
(* fetch the kubeconfig with Config(ctx, false).  The fetch is a container *)
(* that mounts the session's ConfigCache at /cache/k3s and runs, in order: *)
(* the wait loop, cp, and with local the sed.  call is the fetch in        *)
(* progress or the outcome of the last one.                                *)
(***************************************************************************)
CallKubeconfig == <<"cache", "k3s", "k3s.yaml">>

CallMounts(m) == {[at |-> ConfigCallMount, key |-> m.ConfigCache]}

CallIdle == call.pc \in {"idle", "done", "failed", "cancelled"}

StartCall(op, s, local) ==
  /\ ~panicked
  /\ s \in DOMAIN sessions
  /\ CallIdle
  /\ call' = [op |-> op, s |-> s, local |-> local, pc |-> "wait", file |-> <<>>,
               at |-> 0,
               prev |-> IF /\ call.pc = "done"
                           /\ sessions[call.s].Name = sessions[s].Name
                           /\ call.at < s
                        THEN call.file ELSE <<>>]
  /\ UNCHANGED <<sessions, svc, vol, bound, panicked>>

Config(s, local) == StartCall("Config", s, local)

Kubectl(s) == StartCall("Kubectl", s, FALSE)

Kns(s) == StartCall("Kns", s, FALSE)

\* while [ ! -f /cache/k3s/k3s.yaml ]; do echo ...; sleep 0.5; done
\* An iteration that finds no file changes nothing.
WaitDoneNoTest == TRUE

WaitDone == Exists(vol, CallMounts(sessions[call.s]), CallKubeconfig)

Wait ==
  /\ call.pc = "wait"
  /\ WaitDone
  /\ call' = [call EXCEPT !.pc = "cp"]
  /\ UNCHANGED <<sessions, svc, vol, bound, panicked>>

\* cp /cache/k3s/k3s.yaml k3s.yaml
Cp ==
  /\ call.pc = "cp"
  /\ LET m == sessions[call.s]
     IN IF Exists(vol, CallMounts(m), CallKubeconfig)
        THEN call' = [call EXCEPT
               !.file = vol[m.ConfigCache][<<"k3s.yaml">>].text,
               !.at = Len(sessions),
               !.pc = IF call.local THEN "sed"
                      ELSE IF call.op = "Kubectl" THEN "kubectl" ELSE "done"]
        ELSE call' = [call EXCEPT !.pc = "failed"]
  /\ UNCHANGED <<sessions, svc, vol, bound, panicked>>

\* sed -i <script> k3s.yaml
Sed ==
  /\ call.pc = "sed"
  /\ LET r == SedExec(SedScript(sessions[call.s].Port), call.file)
     IN call' = IF r.ok THEN [call EXCEPT !.file = r.text, !.pc = "done"]
                ELSE [call EXCEPT !.pc = "failed"]
  /\ UNCHANGED <<sessions, svc, vol, bound, panicked>>

\* sh -c "kubectl <args>", with the fetched file at /.kube/config
KubectlExec ==
  /\ call.pc = "kubectl"
  /\ call' = [call EXCEPT !.pc = "done"]
  /\ UNCHANGED <<sessions, svc, vol, bound, panicked>>

\* The caller's context is cancelled.
Cancel ==
  /\ call.pc \in {"wait", "cp", "sed", "kubectl"}
  /\ call' = [call EXCEPT !.pc = "cancelled"]
  /\ UNCHANGED <<sessions, svc, vol, bound, panicked>>

(***************************************************************************)
(* Spec: construction, the services and WithContainer, for every name,     *)
(* both values of keepState and every prior content of the volumes, on a   *)
(* host where the entrypoint's commands succeed.                           *)
(***************************************************************************)
Next ==
  \/ \E n \in Names, k \in BOOLEAN : New(n, DefaultImage, k)
  \/ \E s \in DOMAIN sessions : Server(s, TRUE, {})
  \/ \E s \in DOMAIN sessions : \E c \in UserContainers(s) : WithContainer(s, c)

Spec == Init /\ [][Next]_vars

\* The sessions of one name, for the specifications whose subject does not
\* depend on the name.
OneName == {"a"}

(***************************************************************************)
(* SpecShim: the services on hosts with and without the unified cgroup     *)
(* hierarchy, with every set of failing entrypoint commands of at most     *)
(* MaxFails commands.                                                      *)
(***************************************************************************)
NextShim ==
  \/ \E n \in OneName : New(n, DefaultImage, FALSE)
  \/ \E s \in DOMAIN sessions, g \in BOOLEAN, f \in FailSets : Server(s, g, f)

SpecShim == Init /\ [][NextShim]_vars

(***************************************************************************)
(* SpecPorts: construction and the services beside other processes that    *)
(* bind and release ports of the same host.                                *)
(***************************************************************************)
NextPorts ==
  \/ \E n \in Names, k \in BOOLEAN : New(n, DefaultImage, k)
  \/ \E p \in Ports : OtherBind(p)
  \/ \E p \in Ports : OtherRelease(p)
  \/ \E s \in DOMAIN sessions : Server(s, TRUE, {})

SpecPorts == Init /\ [][NextPorts]_vars

(***************************************************************************)
(* SpecFetch: construction, the services and the kubeconfig fetches.  A    *)
(* fetch reads the configuration region of its session's name and nothing  *)
(* else, so the sessions here share one name and the runtime regions       *)
(* start empty.                                                            *)
(***************************************************************************)
InitFetch ==
  /\ Init
  /\ \A n \in Names : vol[CacheKey(n)] = EmptyTree

NextFetch ==
  \/ \E n \in OneName, k \in BOOLEAN : New(n, DefaultImage, k)
  \/ \E s \in DOMAIN sessions : Server(s, TRUE, {})
  \/ \E s \in DOMAIN sessions, l \in BOOLEAN : Config(s, l)
  \/ \E s \in DOMAIN sessions : Kubectl(s)
  \/ \E s \in DOMAIN sessions : Kns(s)
  \/ Wait
  \/ Cp
  \/ Sed
  \/ KubectlExec
  \/ Cancel

SpecFetch == InitFetch /\ [][NextFetch]_vars

\* The wait loop tests for the file every half second and cp follows it in
\* the same container: neither is postponed for ever while it can run.
FairSpecFetch == SpecFetch /\ WF_vars(Wait) /\ WF_vars(Cp)

(***************************************************************************)
(* SpecOps: every operation of a session, WithContainer among them, on     *)
(* volumes that start empty.                                               *)
(***************************************************************************)
InitOps ==
  /\ InitFetch
  /\ \A n \in Names : vol[ConfigKey(n)] = EmptyTree

NextOps ==
  \/ \E n \in OneName : New(n, DefaultImage, FALSE)
  \/ \E s \in DOMAIN sessions : Server(s, TRUE, {})
  \/ \E s \in DOMAIN sessions : \E c \in UserContainers(s) : WithContainer(s, c)
  \/ \E s \in DOMAIN sessions, l \in BOOLEAN : Config(s, l)
  \/ \E s \in DOMAIN sessions : Kubectl(s)
  \/ \E s \in DOMAIN sessions : Kns(s)
  \/ Wait
  \/ Cp
  \/ Sed
  \/ KubectlExec
  \/ Cancel

SpecOps == InitOps /\ [][NextOps]_vars

(***************************************************************************)
(* Properties.                                                             *)
(***************************************************************************)
\* The step is a construction New(name, image, keepState) that returned a session.
Constructed(name, keepState) ==
  New(name, DefaultImage, keepState) /\ Len(sessions') = Len(sessions) + 1

UnderState(p) == IsPrefix(StatePath, RuntimeMount \o p)
UnderTls(p) == IsPrefix(TlsPath, RuntimeMount \o p)

\* Entries of volume k that the step leaves as they are.
Kept(k, p) == p \in DOMAIN vol'[k] /\ vol'[k][p] = vol[k][p]

TlsPresent(name) == <<"k3s", "server", "tls">> \in DOMAIN vol[CacheKey(name)]
KubeconfigPresent(name) == <<"k3s.yaml">> \in DOMAIN vol[ConfigKey(name)]
CredentialsPresent(name) == TlsPresent(name) \/ KubeconfigPresent(name)

NoSessionNamed(name) == \A s \in DOMAIN sessions : sessions[s].Name # name

\* C1 as stated: after New(name, image, keepState=false) the root of the
\* runtime region (/var/lib/rancher) is empty, whatever it held before.
C1_RootEmptyAfterNew ==
  [][\A n \in Names : Constructed(n, FALSE) => vol'[CacheKey(n)] = EmptyTree]_vars

\* C1, amended: New(name, image, keepState=false) removes /var/lib/rancher/k3s
\* and everything below it from the runtime region, and leaves every entry
\* of the region outside /var/lib/rancher/k3s as it was.
C1_StateDirWipedAfterNew ==
  [][\A n \in Names : Constructed(n, FALSE) =>
       /\ \A p \in DOMAIN vol'[CacheKey(n)] : ~UnderState(p)
       /\ DOMAIN vol'[CacheKey(n)] \subseteq DOMAIN vol[CacheKey(n)]
       /\ \A p \in DOMAIN vol[CacheKey(n)] : ~UnderState(p) => Kept(CacheKey(n), p)]_vars

\* A session not yet started whose runtime region held a cluster's state and
\* a foreign entry (as the untouched region of the other name still does)
\* and now holds the foreign entry alone: it was constructed with
\* keepState=false.
C1_Witness ==
  \E s \in DOMAIN sessions : \E n \in Names :
    /\ \A t \in DOMAIN svc : svc[t].status = "none"
    /\ n # sessions[s].Name /\ NoSessionNamed(n)
    /\ vol[CacheKey(n)] = K3sTree @@ OtherTree
    /\ vol[CacheKey(sessions[s].Name)] = OtherTree

\* C2: New(name, image, keepState=true) leaves every entry of every region
\* as it was, except the TLS directory with what is below it and the
\* kubeconfig file, and adds none.
C2_KeepStatePreserves ==
  [][\A n \in Names : Constructed(n, TRUE) =>
       /\ \A k \in Keys : DOMAIN vol'[k] \subseteq DOMAIN vol[k]
       /\ \A p \in DOMAIN vol[CacheKey(n)] : ~UnderTls(p) => Kept(CacheKey(n), p)
       /\ \A p \in DOMAIN vol[ConfigKey(n)] : p # <<"k3s.yaml">> => Kept(ConfigKey(n), p)
       /\ \A k \in Keys \ {CacheKey(n), ConfigKey(n)} : vol'[k] = vol[k]]_vars

\* A session not yet started whose runtime region held a cluster's state
\* with TLS material (as the untouched region of the other name still does)
\* and still holds the datastore, without the TLS directory: it was
\* constructed with keepState=true.
C2_Witness ==
  \E s \in DOMAIN sessions : \E n \in Names :
    /\ \A t \in DOMAIN svc : svc[t].status = "none"
    /\ n # sessions[s].Name /\ NoSessionNamed(n)
    /\ TlsPresent(n)
    /\ ~TlsPresent(sessions[s].Name)
    /\ <<"k3s", "server", "db">> \in DOMAIN vol[CacheKey(sessions[s].Name)]

\* The step starts the service of session s and k3s comes up.
Started(s) == svc[s].status = "none" /\ svc'[s].status = "running"

\* C3 as stated: after every New the TLS directory and the kubeconfig are
\* absent, and they stay absent until a Server() of that session writes them.
C3_AbsentUntilOwnServer ==
  [][/\ \A n \in Names, k \in BOOLEAN : Constructed(n, k) => ~CredentialsPresent(n)'
     /\ \A s \in DOMAIN sessions :
          (~CredentialsPresent(sessions[s].Name) /\ CredentialsPresent(sessions[s].Name)')
             => Started(s)]_vars

\* C3, amended: after every New the TLS directory and the kubeconfig are
\* absent, and they stay absent until a Server() of a session whose
\* container mounts the regions of that name writes them.
C3_AbsentUntilSomeServer ==
  [][/\ \A n \in Names, k \in BOOLEAN : Constructed(n, k) => ~CredentialsPresent(n)'
     /\ \A n \in Names :
          (~CredentialsPresent(n) /\ CredentialsPresent(n)')
             => \E s \in DOMAIN sessions :
                  /\ Started(s)
                  /\ sessions[s].Container.cfg = ConfigKey(n)
                  /\ sessions[s].Container.rt = CacheKey(n)]_vars

\* Two sessions of one name: the later one was never started, and the
\* credentials its construction removed are back, written by the earlier one.
C3_Witness ==
  \E s, t \in DOMAIN sessions :
    /\ t < s /\ sessions[t].Name = sessions[s].Name
    /\ svc[s].status = "none" /\ svc[t].status = "running"
    /\ TlsPresent(sessions[s].Name) /\ KubeconfigPresent(sessions[s].Name)

\* Names that contain the pieces the key prefixes are made of.
KeyNames == Names \cup {"", "_", "a_", "config_a", "cache_a", "k3s_config_a", "k3s_cache_a"}

\* The cache regions a session is attached to: its ConfigCache and the
\* volumes its container mounts.
Regions(m) == {m.ConfigCache, m.Container.cfg, m.Container.rt} \ {""}

\* C7: for names n1 # n2 the keys derived from n1 and those derived from n2
\* are disjoint, and no two sessions constructed with distinct names are
\* attached to a common region.
C7_KeysDisjoint ==
  /\ \A n1, n2 \in KeyNames :
       n1 # n2 => {ConfigKey(n1), CacheKey(n1)} \cap {ConfigKey(n2), CacheKey(n2)} = {}
  /\ \A s, t \in DOMAIN sessions :
       sessions[s].Name # sessions[t].Name => Regions(sessions[s]) \cap Regions(sessions[t]) = {}

\* Two sessions with distinct names, both with the container New built.
C7_Witness ==
  \E s, t \in DOMAIN sessions :
    /\ sessions[s].Name # sessions[t].Name
    /\ Cardinality(Regions(sessions[s])) = 2
    /\ Cardinality(Regions(sessions[t])) = 2

\* C9 as stated: whichever entrypoint commands fail, the entrypoint ends by
\* exec-ing the target command, so no started service ends in the entrypoint.
C9_ShimAlwaysExecs == \A s \in DOMAIN svc : svc[s].status # "aborted"

\* The commands of the entrypoint's cgroup branch whose failure errexit acts on.
ErrexitChecked == {"echo_start", "mkdir_init", "subtree_control", "echo_done"}

\* C9, amended: the entrypoint ignores a failure of the PID move alone.  It
\* ends without exec-ing the target exactly when the unified hierarchy is
\* present and one of the other commands of that branch (creating the child
\* group, writing the subtree-control file, the two echo lines) fails; on
\* every other path it execs the target.
C9_ShimExecsUnlessCheckedStepFails ==
  [][\A s \in DOMAIN sessions :
       (svc'[s] # svc[s] /\ sessions[s].Container.entrypoint) =>
          \A g \in BOOLEAN, f \in FailSets :
            Server(s, g, f) =>
              (svc'[s].status = "aborted" <=> (g /\ f \cap ErrexitChecked # {}))]_vars

\* A service that ended in the entrypoint beside one that came up.
C9_Witness ==
  \E s, t \in DOMAIN svc : svc[s].status = "aborted" /\ svc[t].status = "running"

\* C10: the port New returns was free when getFreePort probed it and is free
\* again when New returns (the probe listener is closed), so the construction
\* leaves the host's ports as they were and holds none for the session.
C10_NoReservation ==
  [][Len(sessions') = Len(sessions) + 1 =>
       LET m == sessions'[Len(sessions')]
       IN /\ bound[m.Port] = Free
          /\ bound'[m.Port] = Free
          /\ bound' = bound]_vars

\* A session not yet started whose port another process has bound.
C10_Witness ==
  \E s \in DOMAIN sessions : svc[s].status = "none" /\ bound[sessions[s].Port] = Other

\* The kubeconfig is in the configuration region of the session of the call.
CallFilePresent ==
  call.op # "none" /\ <<"k3s.yaml">> \in DOMAIN vol[sessions[call.s].ConfigCache]

PastWait == call.pc \in {"cp", "sed", "kubectl", "done", "failed"}

Contains(text, part) ==
  \E i \in 1..(Len(text) - Len(part) + 1) : SubSeq(text, i, i + Len(part) - 1) = part

\* C5: on a session with port P whose region holds a kubeconfig with the
\* server entry https://<bind address>:P, Config(local=true) succeeds and
\* its file contains localhost:P, and Config(local=false) returns the file
\* with the bind address and without localhost.
C5_LocalRewritesHost ==
  LET P == sessions[call.s].Port
  IN /\ (call.op = "Config" /\ call.local /\ call.pc = "failed"
           /\ call.file = Yaml(BindAddress, P)) => FALSE
     /\ (call.op = "Config" /\ call.local /\ call.pc = "done") =>
          Contains(call.file, <<"localhost", ":", ToString(P)>>)
     /\ (call.op = "Config" /\ ~call.local /\ call.pc = "done") =>
          (Contains(call.file, <<BindAddress>>) /\ ~Contains(call.file, <<"localhost">>))

\* C6 as stated: the file a fetch returns after a second New with the same
\* name is the file the fetch before that construction returned.
C6_SameFileAcrossNew ==
  (call.pc = "done" /\ call.prev # <<>>) => call.file = call.prev

\* C6, amended: the sessions of one name are attached to one configuration
\* region, whose key depends on the name alone, but the kubeconfig does not
\* outlast a construction: New removes it from the region, and a fetch
\* returns the file that is in the region when its copy runs, which is one a
\* server wrote after the latest construction for that name.
C6_RegionSharedFileRemoved ==
  /\ [](\A s, t \in DOMAIN sessions :
          sessions[s].Name = sessions[t].Name => sessions[s].ConfigCache = sessions[t].ConfigCache)
  /\ [][\A n \in Names, k \in BOOLEAN : Constructed(n, k) => ~KubeconfigPresent(n)']_vars
  /\ [][(call.pc = "cp" /\ call'.pc \in {"done", "sed", "kubectl"}) =>
          /\ CallFilePresent
          /\ call'.file = vol[sessions[call.s].ConfigCache][<<"k3s.yaml">>].text]_vars

\* A fetch after a second construction that returned another file than the
\* fetch before it.
C6_Witness ==
  call.pc = "done" /\ call.prev # <<>> /\ call.file # call.prev

\* C8: no operation changes the Name, Port or ConfigCache of a session;
\* Container changes only in WithContainer, which sets it to its argument;
\* and the port of every Server() command is the session's Port.
C8_FieldsFrozen ==
  [][\A s \in DOMAIN sessions :
       /\ s \in DOMAIN sessions'
       /\ sessions'[s].Name = sessions[s].Name
       /\ sessions'[s].Port = sessions[s].Port
       /\ sessions'[s].ConfigCache = sessions[s].ConfigCache
       /\ (sessions'[s].Container # sessions[s].Container =>
             \E c \in UserContainers(s) : WithContainer(s, c) /\ sessions'[s].Container = c)
       /\ (svc'[s] # svc[s] => svc'[s].port = sessions[s].Port)]_vars

\* A session whose container was replaced, whose service was started after
\* that and on which a fetch has returned.
C8_Witness ==
  \E s \in DOMAIN sessions :
    /\ sessions[s].Container = Plain
    /\ sessions[s].Container.exposed # sessions[s].Port
    /\ svc[s].status = "running"
    /\ ~TlsPresent(sessions[s].Name)
    /\ call.s = s /\ call.pc = "done"

====
